---------------------------- MODULE Spec2Model ----------------------------
(***************************************************************************)
(* WSV (Whitespace-Separated Values), Stenway.Wsv.js: the non-preserving   *)
(* parser (WsvParser), its codepoint cursor (BasicWsvCharIterator) and the *)
(* serializer (WsvSerializer).                                             *)
(*                                                                         *)
(* A JavaScript string is a sequence of UTF-16 code units (integers); a    *)
(* cursor works on the decoded codepoints.  A value is null or a string:   *)
(* Null and Str(s).  One call of the public API is one behaviour: the      *)
(* parser advances one loop iteration of the code per step.                *)
(***************************************************************************)
EXTENDS Integers, Sequences, FiniteSets, TLC

CODEPOINT_LINEFEED == 10
CODEPOINT_DOUBLEQUOTE == 34
CODEPOINT_HASH == 35
CODEPOINT_SLASH == 47

\* the literals ' ' and "-" of the program
CODEUNIT_SPACE == 32
CODEUNIT_DASH == 45

\* what chars[index] gives past the end of the array (JavaScript undefined):
\* equal to no codepoint, and no whitespace
Undefined == 0 - 1

-----------------------------------------------------------------------------
(* Bounds *)

MaxLen == 4        \* code units of an enumerated text
MaxVals == 2       \* values of an enumerated line
MaxChars == 2      \* code units of the strings of an enumerated line, together

Alphabet ==
    {CODEPOINT_LINEFEED, CODEPOINT_DOUBLEQUOTE, CODEPOINT_HASH, CODEPOINT_SLASH,
     CODEUNIT_DASH, CODEUNIT_SPACE, 97}

SeqsUpTo(S, n) == UNION {[1..k -> S] : k \in 0..n}

\* the texts of section 8 of the specification, and two with a character
\* outside the basic plane (U+1F600 = D83D DE00)
Unterminated == <<34, 117, 110, 116, 101, 114, 109, 105, 110, 97, 116, 101, 100>>
QuoteInValue == <<97, 34, 98>>
CommentAfterValues == <<97, 32, 98, 32, 35, 99, 111, 109, 109, 101, 110, 116>>
CommentAfterString == <<97, 32, 34, 98, 34, 32, 35, 32, 120, 32, 121>>
EscapedQuote == <<34, 97, 98, 34, 34, 99, 100, 34>>
EscapedLineBreak ==
    <<34, 108, 105, 110, 101, 49, 34, 47, 34, 108, 105, 110, 101, 50, 34>>
MultiLine == <<97, 32, 98, 10, 99, 32, 45, 10>>
AstralThenQuote == <<55357, 56832, 34>>
AstralValue == <<55357, 56832, 32, 34, 55357, 56832, 34>>

OnlyLineBreak == <<34, 34, 47, 34, 34>>

ExampleTexts ==
    {Unterminated, OnlyLineBreak, QuoteInValue, CommentAfterValues, CommentAfterString,
     EscapedQuote, EscapedLineBreak, MultiLine, AstralThenQuote, AstralValue}

Texts == SeqsUpTo(Alphabet, MaxLen) \cup ExampleTexts

-----------------------------------------------------------------------------
(* Values *)

Null == [null |-> TRUE, str |-> <<>>]
Str(s) == [null |-> FALSE, str |-> s]

ValuesUpTo(c) == {Null} \cup {Str(s) : s \in SeqsUpTo(Alphabet, c)}

\* the lines of at most n values whose strings have at most c code units
RECURSIVE LinesUpTo(_, _)
LinesUpTo(n, c) ==
    IF n = 0 THEN {<<>>}
    ELSE {<<>>} \cup
         UNION {{<<h>> \o t : t \in LinesUpTo(n - 1, c - Len(h.str))} :
                    h \in ValuesUpTo(c)}

Values == ValuesUpTo(MaxChars)
ValueLines == LinesUpTo(MaxVals, MaxChars)

-----------------------------------------------------------------------------
(* WsvChar *)

isWhitespace(c) ==
    \/ c = 9
    \/ (c >= 11 /\ c <= 13)
    \/ c = 32
    \/ c = 133
    \/ c = 160
    \/ c = 5760
    \/ (c >= 8192 /\ c <= 8202)
    \/ (c >= 8232 /\ c <= 8233)
    \/ c = 8239
    \/ c = 8287
    \/ c = 12288

IsHighSurrogate(u) == u >= 55296 /\ u <= 56319
IsLowSurrogate(u) == u >= 56320 /\ u <= 57343

\* Array.from(str).map(c => c.codePointAt(0)): a surrogate pair is one
\* codepoint, a lone surrogate is itself
RECURSIVE getCodePoints(_)
getCodePoints(str) ==
    IF str = <<>> THEN <<>>
    ELSE IF /\ Len(str) >= 2
            /\ IsHighSurrogate(str[1])
            /\ IsLowSurrogate(str[2])
         THEN <<65536 + (str[1] - 55296) * 1024 + (str[2] - 56320)>>
                  \o getCodePoints(SubSeq(str, 3, Len(str)))
         ELSE <<str[1]>> \o getCodePoints(Tail(str))

\* String.fromCodePoint(...cps)
RECURSIVE fromCodePoint(_)
fromCodePoint(cps) ==
    IF cps = <<>> THEN <<>>
    ELSE IF cps[1] >= 65536
         THEN <<55296 + ((cps[1] - 65536) \div 1024),
                56320 + ((cps[1] - 65536) % 1024)>> \o fromCodePoint(Tail(cps))
         ELSE <<cps[1]>> \o fromCodePoint(Tail(cps))

-----------------------------------------------------------------------------
(* BasicWsvCharIterator: [chars, index, lineIndex], index counted from 0 *)

\* faulty variant: the line index is counted from 1
BasicWsvCharIterator_OneBasedLine(str, lineIndex) ==
    [chars |-> getCodePoints(str), index |-> 0, lineIndex |-> lineIndex + 1]

BasicWsvCharIterator(str, lineIndex) ==
    [chars |-> getCodePoints(str), index |-> 0, lineIndex |-> lineIndex]

\* faulty variant: the end is seen one position late
isEnd_OffByOne(it) == it.index > Len(it.chars)

isEnd(it) == it.index >= Len(it.chars)

get(it) == IF it.index < Len(it.chars) THEN it.chars[it.index + 1] ELSE Undefined

is(it, c) == get(it) = c

isWhitespaceAt(it) == isWhitespace(get(it))

\* next() moves the cursor; its result is ~isEnd of the moved cursor
next(it) == [it EXCEPT !.index = it.index + 1]

getSlice(it, startIndex) ==
    SubSeq(it.chars, startIndex + 1,
           IF it.index <= Len(it.chars) THEN it.index ELSE Len(it.chars))

WsvParserError(lineIndex, linePosition, message) ==
    [name |-> "WsvParserError",
     lineIndex |-> lineIndex,
     linePosition |-> linePosition,
     message |-> <<message, lineIndex + 1, linePosition + 1>>]

\* faulty variant: the position is counted from 1
getException_OneBasedPosition(it, message) ==
    WsvParserError(it.lineIndex, it.index + 1, message)

getException(it, message) == WsvParserError(it.lineIndex, it.index, message)

NoError == [name |-> "none", lineIndex |-> 0 - 1, linePosition |-> 0 - 1,
            message |-> <<>>]

-----------------------------------------------------------------------------
(* WsvSerializer *)

\* faulty variant: # is not special
__containsSpecialChar_NoHash(chars) ==
    \E k \in 1..Len(chars) :
        \/ isWhitespace(chars[k])
        \/ chars[k] = CODEPOINT_DOUBLEQUOTE

__containsSpecialChar(chars) ==
    \E k \in 1..Len(chars) :
        \/ isWhitespace(chars[k])
        \/ chars[k] = CODEPOINT_DOUBLEQUOTE
        \/ chars[k] = CODEPOINT_HASH

needsDoubleQuotes(value) ==
    IF value.null THEN FALSE
    ELSE IF Len(value.str) = 0 \/ value.str = <<CODEUNIT_DASH>> THEN TRUE
    ELSE __containsSpecialChar(getCodePoints(value.str))

\* the loop of serializeValue over the codepoints
RECURSIVE escapeChars(_)
escapeChars(chars) ==
    IF chars = <<>> THEN <<>>
    ELSE (IF chars[1] = CODEPOINT_LINEFEED
             THEN <<CODEPOINT_DOUBLEQUOTE, CODEPOINT_SLASH, CODEPOINT_DOUBLEQUOTE>>
          ELSE IF chars[1] = CODEPOINT_DOUBLEQUOTE
             THEN <<CODEPOINT_DOUBLEQUOTE, CODEPOINT_DOUBLEQUOTE>>
          ELSE fromCodePoint(<<chars[1]>>))
         \o escapeChars(Tail(chars))

\* faulty variant: without the branch for "-" (line 213)
serializeValue_DashUnquoted(value) ==
    IF value.null THEN <<CODEUNIT_DASH>>
    ELSE IF Len(value.str) = 0 THEN <<CODEPOINT_DOUBLEQUOTE, CODEPOINT_DOUBLEQUOTE>>
    ELSE LET chars == getCodePoints(value.str) IN
         IF __containsSpecialChar(chars)
         THEN <<CODEPOINT_DOUBLEQUOTE>> \o escapeChars(chars)
                  \o <<CODEPOINT_DOUBLEQUOTE>>
         ELSE value.str

serializeValue(value) ==
    IF value.null THEN <<CODEUNIT_DASH>>
    ELSE IF Len(value.str) = 0 THEN <<CODEPOINT_DOUBLEQUOTE, CODEPOINT_DOUBLEQUOTE>>
    ELSE IF value.str = <<CODEUNIT_DASH>>
         THEN <<CODEPOINT_DOUBLEQUOTE, CODEUNIT_DASH, CODEPOINT_DOUBLEQUOTE>>
    ELSE LET chars == getCodePoints(value.str) IN
         IF __containsSpecialChar(chars)
         THEN <<CODEPOINT_DOUBLEQUOTE>> \o escapeChars(chars)
                  \o <<CODEPOINT_DOUBLEQUOTE>>
         ELSE value.str

RECURSIVE serializeValues(_)
serializeValues(vals) ==
    IF vals = <<>> THEN <<>>
    ELSE IF Len(vals) = 1 THEN serializeValue(vals[1])
    ELSE serializeValues(SubSeq(vals, 1, Len(vals) - 1))
             \o <<CODEUNIT_SPACE>> \o serializeValue(vals[Len(vals)])

RECURSIVE serialize(_)
serialize(ls) ==
    IF ls = <<>> THEN <<>>
    ELSE IF Len(ls) = 1 THEN serializeValues(ls[1])
    ELSE serialize(SubSeq(ls, 1, Len(ls) - 1))
             \o <<CODEPOINT_LINEFEED>> \o serializeValues(ls[Len(ls)])

-----------------------------------------------------------------------------
(* content.split('\n') *)

RECURSIVE split(_)
split(str) ==
    IF \A k \in 1..Len(str) : str[k] # CODEPOINT_LINEFEED THEN <<str>>
    ELSE LET p == CHOOSE k \in 1..Len(str) :
                      /\ str[k] = CODEPOINT_LINEFEED
                      /\ \A j \in 1..(k - 1) : str[j] # CODEPOINT_LINEFEED
         IN <<SubSeq(str, 1, p - 1)>> \o split(SubSeq(str, p + 1, Len(str)))

-----------------------------------------------------------------------------
(* State *)

VARIABLES
    op,          \* the public operation in progress
    arg,         \* serializeValue / serializeValues: the argument
    content,     \* parseDocumentNonPreserving: the text
    lines,       \* parseDocumentNonPreserving: content.split('\n')
    i,           \* parseDocumentNonPreserving: the loop index
    result,      \* parseDocumentNonPreserving: the lines parsed so far
    iterator,    \* __parseLine: the cursor
    values,      \* __parseLine: the values of the line so far
    startIndex,  \* __parseValue: where the token started
    value,       \* __parseDoubleQuoteValue: the accumulated string
    pc,          \* position in the code
    error,       \* the WsvParserError thrown, NoError if none
    returned,    \* the value the operation returned
    roundTrip,   \* the text being parsed is the serialization of original
    original     \* the line or document that was serialized

vars == <<op, arg, content, lines, i, result, iterator, values, startIndex,
          value, pc, error, returned, roundTrip, original>>

parserVars == <<lines, i, result, iterator, values, startIndex, value>>

Init ==
    /\ \/ op \in {"parseDocument", "parseLine"} /\ content \in Texts /\ arg = <<>>
       \/ op = "serializeLine" /\ arg \in ValueLines /\ content = <<>>
       \/ op = "serializeValue" /\ arg \in Values /\ content = <<>>
    /\ lines = <<>>
    /\ i = 0
    /\ result = <<>>
    /\ iterator = BasicWsvCharIterator(<<>>, 0)
    /\ values = <<>>
    /\ startIndex = 0
    /\ value = <<>>
    /\ pc = "call"
    /\ error = NoError
    /\ returned = <<>>
    /\ roundTrip = FALSE
    /\ original = <<>>

-----------------------------------------------------------------------------
(* WsvParser.parseDocumentNonPreserving, parseLineAsArray *)

\* lines 90-91: split and start the loop
ParseDocumentNonPreserving ==
    /\ pc = "call"
    /\ op \in {"parseDocument", "parseLine"}
    /\ lines' = split(content)
    /\ result' = <<>>
    /\ i' = 0
    /\ pc' = "for"
    /\ UNCHANGED <<op, arg, content, iterator, values, startIndex, value, error,
                   returned, roundTrip, original>>

\* lines 92-94 and 105-106: the loop test, and the call of __parseLine
ParseLine ==
    /\ pc = "for"
    /\ i < Len(lines)
    /\ iterator' = BasicWsvCharIterator(lines[i + 1], i)
    /\ values' = <<>>
    /\ pc' = "skip"
    /\ UNCHANGED <<op, arg, content, lines, i, result, startIndex, value, error,
                   returned, roundTrip, original>>

\* line 97, and line 101 for parseLineAsArray
Return ==
    /\ pc = "for"
    /\ i >= Len(lines)
    /\ returned' = IF op = "parseLine" THEN result[1] ELSE result
    /\ pc' = "done"
    /\ UNCHANGED <<op, arg, content, lines, i, result, iterator, values,
                   startIndex, value, error, roundTrip, original>>

-----------------------------------------------------------------------------
(* WsvParser.__skipWhitespace *)

\* the body of the do-while loop, lines 180-183
SkipBody ==
    IF ~isWhitespaceAt(iterator)
    THEN iterator' = iterator /\ pc' = "head"
    ELSE /\ iterator' = next(iterator)
         /\ pc' = IF ~isEnd(next(iterator)) THEN "do" ELSE "head"

SkipWhitespace ==
    /\ pc = "skip"
    /\ IF isEnd(iterator)
       THEN iterator' = iterator /\ pc' = "head"
       ELSE SkipBody
    /\ UNCHANGED <<op, arg, content, lines, i, result, values, startIndex, value,
                   error, returned, roundTrip, original>>

SkipWhitespaceLoop ==
    /\ pc = "do"
    /\ SkipBody
    /\ UNCHANGED <<op, arg, content, lines, i, result, values, startIndex, value,
                   error, returned, roundTrip, original>>

-----------------------------------------------------------------------------
(* WsvParser.__parseLine, lines 110-128 *)

\* the line is complete: return values, push them (line 95), i++
LineDone ==
    /\ result' = Append(result, values)
    /\ i' = i + 1
    /\ pc' = "for"
    /\ UNCHANGED <<op, arg, content, lines, iterator, values, startIndex, value,
                   error, returned, roundTrip, original>>

\* lines 110-112
EndOfLine ==
    /\ pc = "head"
    /\ isEnd(iterator)
    /\ LineDone

\* faulty variant: a comment discards the values read before it
Comment_DropsValues ==
    /\ pc = "head"
    /\ ~isEnd(iterator)
    /\ is(iterator, CODEPOINT_HASH)
    /\ result' = Append(result, <<>>)
    /\ i' = i + 1
    /\ pc' = "for"
    /\ UNCHANGED <<op, arg, content, lines, iterator, values, startIndex, value,
                   error, returned, roundTrip, original>>

\* lines 113-115
Comment ==
    /\ pc = "head"
    /\ ~isEnd(iterator)
    /\ is(iterator, CODEPOINT_HASH)
    /\ LineDone

\* lines 117-118 and 147
BeginDoubleQuoteValue ==
    /\ pc = "head"
    /\ ~isEnd(iterator)
    /\ ~is(iterator, CODEPOINT_HASH)
    /\ is(iterator, CODEPOINT_DOUBLEQUOTE)
    /\ value' = <<>>
    /\ pc' = "dq"
    /\ UNCHANGED <<op, arg, content, lines, i, result, iterator, values,
                   startIndex, error, returned, roundTrip, original>>

\* lines 119-120 and 132
BeginValue ==
    /\ pc = "head"
    /\ ~isEnd(iterator)
    /\ ~is(iterator, CODEPOINT_HASH)
    /\ ~is(iterator, CODEPOINT_DOUBLEQUOTE)
    /\ startIndex' = iterator.index
    /\ pc' = "pv"
    /\ UNCHANGED <<op, arg, content, lines, i, result, iterator, values, value,
                   error, returned, roundTrip, original>>

\* throw: the exception leaves every loop
Throw(it, message) ==
    /\ iterator' = it
    /\ error' = getException(it, message)
    /\ pc' = "error"
    /\ UNCHANGED <<values, value>>

\* faulty variant: without the null marker
unquotedValue_NeverNull(curValue) == Str(curValue)

\* lines 121-123: an unquoted token that is exactly "-" is null
unquotedValue(curValue) ==
    IF curValue = <<CODEUNIT_DASH>> THEN Null ELSE Str(curValue)

\* line 125: values.push(curValue), and the loop goes round
Push(curValue) ==
    /\ values' = Append(values, curValue)
    /\ pc' = "skip"
    /\ UNCHANGED <<error>>

-----------------------------------------------------------------------------
(* WsvParser.__parseValue: one iteration of the loop, lines 133-143 *)

ParseValue ==
    /\ pc = "pv"
    /\ LET it == next(iterator) IN
       IF isEnd(it) \/ isWhitespaceAt(it) \/ is(it, CODEPOINT_HASH)
       THEN LET curValue == fromCodePoint(getSlice(it, startIndex)) IN
            /\ iterator' = it
            /\ Push(unquotedValue(curValue))
            /\ UNCHANGED value
       ELSE IF is(it, CODEPOINT_DOUBLEQUOTE)
       THEN Throw(it, "Invalid double quote in value")
       ELSE /\ iterator' = it
            /\ UNCHANGED <<values, value, pc, error>>
    /\ UNCHANGED <<op, arg, content, lines, i, result, startIndex, returned,
                   roundTrip, original>>

-----------------------------------------------------------------------------
(* WsvParser.__parseDoubleQuoteValue: one iteration of the loop, 149-170 *)

\* faulty variant: the terminator after the closing quote is consumed
ParseDoubleQuoteValue_ConsumesTerminator ==
    /\ pc = "dq"
    /\ LET it1 == next(iterator)
           it2 == next(it1)
           it3 == next(it2)
       IN
       IF isEnd(it1) THEN Throw(it1, "String not closed")
       ELSE IF is(it1, CODEPOINT_DOUBLEQUOTE)
       THEN IF isEnd(it2)
            THEN /\ iterator' = it2
                 /\ Push(Str(value))
                 /\ UNCHANGED value
            ELSE IF is(it2, CODEPOINT_DOUBLEQUOTE)
            THEN /\ iterator' = it2
                 /\ value' = value \o <<CODEPOINT_DOUBLEQUOTE>>
                 /\ UNCHANGED <<values, pc, error>>
            ELSE IF is(it2, CODEPOINT_SLASH)
            THEN IF ~(~isEnd(it3) /\ is(it3, CODEPOINT_DOUBLEQUOTE))
                 THEN Throw(it3, "Invalid string line break")
                 ELSE /\ iterator' = it3
                      /\ value' = value \o <<CODEPOINT_LINEFEED>>
                      /\ UNCHANGED <<values, pc, error>>
            ELSE IF isWhitespaceAt(it2) \/ is(it2, CODEPOINT_HASH)
            THEN /\ iterator' = it3
                 /\ Push(Str(value))
                 /\ UNCHANGED value
            ELSE Throw(it2, "Invalid character after string")
       ELSE /\ iterator' = it1
            /\ value' = value \o fromCodePoint(<<get(it1)>>)
            /\ UNCHANGED <<values, pc, error>>
    /\ UNCHANGED <<op, arg, content, lines, i, result, startIndex, returned,
                   roundTrip, original>>

ParseDoubleQuoteValue ==
    /\ pc = "dq"
    /\ LET it1 == next(iterator)
           it2 == next(it1)
           it3 == next(it2)
       IN
       IF isEnd(it1) THEN Throw(it1, "String not closed")
       ELSE IF is(it1, CODEPOINT_DOUBLEQUOTE)
       THEN IF isEnd(it2)
            THEN /\ iterator' = it2
                 /\ Push(Str(value))
                 /\ UNCHANGED value
            ELSE IF is(it2, CODEPOINT_DOUBLEQUOTE)
            THEN /\ iterator' = it2
                 /\ value' = value \o <<CODEPOINT_DOUBLEQUOTE>>
                 /\ UNCHANGED <<values, pc, error>>
            ELSE IF is(it2, CODEPOINT_SLASH)
            THEN IF ~(~isEnd(it3) /\ is(it3, CODEPOINT_DOUBLEQUOTE))
                 THEN Throw(it3, "Invalid string line break")
                 ELSE /\ iterator' = it3
                      /\ value' = value \o <<CODEPOINT_LINEFEED>>
                      /\ UNCHANGED <<values, pc, error>>
            ELSE IF isWhitespaceAt(it2) \/ is(it2, CODEPOINT_HASH)
            THEN /\ iterator' = it2
                 /\ Push(Str(value))
                 /\ UNCHANGED value
            ELSE Throw(it2, "Invalid character after string")
       ELSE /\ iterator' = it1
            /\ value' = value \o fromCodePoint(<<get(it1)>>)
            /\ UNCHANGED <<values, pc, error>>
    /\ UNCHANGED <<op, arg, content, lines, i, result, startIndex, returned,
                   roundTrip, original>>

-----------------------------------------------------------------------------
(* WsvSerializer.serializeValue, serializeValues as calls *)

SerializeValue ==
    /\ pc = "call"
    /\ op = "serializeValue"
    /\ returned' = serializeValue(arg)
    /\ pc' = "done"
    /\ UNCHANGED <<op, arg, content, roundTrip, original, error>>
    /\ UNCHANGED parserVars

SerializeValues ==
    /\ pc = "call"
    /\ op = "serializeLine"
    /\ returned' = serializeValues(arg)
    /\ pc' = "done"
    /\ UNCHANGED <<op, arg, content, roundTrip, original, error>>
    /\ UNCHANGED parserVars

-----------------------------------------------------------------------------
(* The round trips: a caller passes the result of one operation to the     *)
(* inverse operation.                                                      *)

\* parseLineAsArray(serializeValues(v))
ParseSerializedLine ==
    /\ pc = "done"
    /\ op = "serializeLine"
    /\ op' = "parseLine"
    /\ content' = returned
    /\ original' = arg
    /\ roundTrip' = TRUE
    /\ returned' = <<>>
    /\ pc' = "call"
    /\ UNCHANGED <<arg, error>>
    /\ UNCHANGED parserVars

\* parseDocumentNonPreserving(serialize(D)), D a parsed document
ParseSerializedDocument ==
    /\ pc = "done"
    /\ op = "parseDocument"
    /\ ~roundTrip
    /\ content' = serialize(returned)
    /\ original' = returned
    /\ roundTrip' = TRUE
    /\ returned' = <<>>
    /\ pc' = "call"
    /\ UNCHANGED <<op, arg, error>>
    /\ UNCHANGED parserVars

-----------------------------------------------------------------------------

Next ==
    \/ ParseDocumentNonPreserving
    \/ ParseLine
    \/ Return
    \/ SkipWhitespace
    \/ SkipWhitespaceLoop
    \/ EndOfLine
    \/ Comment
    \/ BeginDoubleQuoteValue
    \/ BeginValue
    \/ ParseValue
    \/ ParseDoubleQuoteValue
    \/ SerializeValue
    \/ SerializeValues
    \/ ParseSerializedLine
    \/ ParseSerializedDocument

Spec == Init /\ [][Next]_vars

-----------------------------------------------------------------------------
(* Vocabulary of the properties *)

ParseOp == op \in {"parseDocument", "parseLine"}
InLine == pc \in {"skip", "do", "head", "pv", "dq"}
Finished == pc \in {"done", "error"}

CountLineFeeds(str) ==
    Cardinality({k \in 1..Len(str) : str[k] = CODEPOINT_LINEFEED})

RECURSIVE JoinWithLineFeed(_)
JoinWithLineFeed(segs) ==
    IF Len(segs) = 1 THEN segs[1]
    ELSE segs[1] \o <<CODEPOINT_LINEFEED>> \o JoinWithLineFeed(Tail(segs))

HasLineFeed(str) == \E k \in 1..Len(str) : str[k] = CODEPOINT_LINEFEED

\* the quoting rule in the words of the specification: empty, exactly "-",
\* or some whitespace codepoint, quote or #
QuotingRule(str) ==
    \/ str = <<>>
    \/ str = <<CODEUNIT_DASH>>
    \/ \E k \in 1..Len(getCodePoints(str)) :
           LET c == getCodePoints(str)[k] IN
           isWhitespace(c) \/ c = CODEPOINT_DOUBLEQUOTE \/ c = CODEPOINT_HASH

\* the quoted form in the words of the specification, built from the end
RECURSIVE QuotedBody(_)
QuotedBody(cps) ==
    IF cps = <<>> THEN <<>>
    ELSE LET c == cps[Len(cps)]
             front == QuotedBody(SubSeq(cps, 1, Len(cps) - 1))
         IN IF c = CODEPOINT_LINEFEED
               THEN front \o <<CODEPOINT_DOUBLEQUOTE, CODEPOINT_SLASH,
                               CODEPOINT_DOUBLEQUOTE>>
            ELSE IF c = CODEPOINT_DOUBLEQUOTE
               THEN front \o <<CODEPOINT_DOUBLEQUOTE, CODEPOINT_DOUBLEQUOTE>>
            ELSE front \o fromCodePoint(<<c>>)

\* the codepoint at a position counted from 0, Undefined past the end
At(chars, k) == IF k >= 0 /\ k < Len(chars) THEN chars[k + 1] ELSE Undefined

-----------------------------------------------------------------------------
\* C1: document round trip.  For every text on which parseDocument succeeds
\* with result D, parseDocument(serializeDocument(D)) succeeds and equals D.
C1_DocumentRoundTrip ==
    (op = "parseDocument" /\ roundTrip /\ Finished)
        => (pc = "done" /\ returned = original)

-----------------------------------------------------------------------------
\* C2: line round trip.  For every sequence v of values, each null or a
\* string that has no line-feed or is serialized in quoted form,
\* parseLine(serializeLine(v)) = v; ["-"] does not come back as [null].
C2_Admissible(v) ==
    \A k \in 1..Len(v) :
        v[k].null \/ ~HasLineFeed(v[k].str) \/ QuotingRule(v[k].str)

C2_LineRoundTrip ==
    (op = "parseLine" /\ roundTrip /\ C2_Admissible(original))
        => /\ pc # "error"
           /\ pc = "done" => returned = original
           /\ (pc = "done" /\ original = <<Str(<<CODEUNIT_DASH>>)>>)
                  => returned # <<Null>>

C2_Witness ==
    /\ op = "parseLine" /\ roundTrip /\ pc = "done"
    /\ original = <<Null, Str(<<CODEPOINT_LINEFEED, CODEUNIT_SPACE>>)>>
    /\ returned = original

-----------------------------------------------------------------------------
\* C3: parseLine on a text with line-feeds has the outcome of parsing the
\* first segment alone: an error can only be the first segment's error, and
\* when the first segment parses the call returns its values.
C3_FirstSegmentOnly ==
    op = "parseLine"
        => /\ pc = "error" => (error.lineIndex = 0 /\ Len(result) = 0)
           /\ pc = "done" => returned = result[1]

-----------------------------------------------------------------------------
\* C4: parseDocument splits on line-feeds only and parses the segments in
\* order; on success there are (line-feeds + 1) lines, the i-th being the
\* values of the i-th segment; otherwise the outcome is the error of the
\* lowest-indexed malformed segment, tagged with its index, with no partial
\* result, and no later segment is parsed.
C4_State ==
    ParseOp =>
       /\ pc # "call" =>
             /\ Len(lines) = CountLineFeeds(content) + 1
             /\ JoinWithLineFeed(lines) = content
             /\ \A k \in 1..Len(lines) : ~HasLineFeed(lines[k])
             /\ Len(result) = i
       /\ InLine =>
             /\ i < Len(lines)
             /\ iterator.chars = getCodePoints(lines[i + 1])
             /\ iterator.lineIndex = i
       /\ (pc = "done" /\ op = "parseDocument") =>
             /\ returned = result
             /\ Len(returned) = CountLineFeeds(content) + 1
       /\ pc = "error" =>
             /\ error.lineIndex = i
             /\ i < Len(lines)
             /\ returned = <<>>
       /\ (pc = "done" /\ op = "parseDocument" /\ content = MultiLine) =>
             returned = << <<Str(<<97>>), Str(<<98>>)>>,
                           <<Str(<<99>>), Null>>,
                           <<>> >>

C4_Step ==
    /\ pc # "error"
    /\ (InLine /\ pc' = "for") => (result' = Append(result, values) /\ i' = i + 1)
    /\ (InLine /\ pc' # "for") => (result' = result /\ i' = i)
    /\ pc = "for" => result' = result

C4_DocumentParse == []C4_State /\ [][C4_Step]_vars

C4_Witness ==
    /\ op = "parseDocument" /\ pc = "error"
    /\ error.lineIndex = 1 /\ Len(lines) = 3 /\ Len(result) = 1

-----------------------------------------------------------------------------
\* C5 as stated: every error carries the zero-based line index and the
\* zero-based codepoint position; parseLine('"unterminated') fails with
\* StringNotClosed at line 0, position 14.
C5_ErrorPositions(unterminatedAt) ==
    (ParseOp /\ pc = "error") =>
       /\ error.lineIndex = i
       /\ error.linePosition = iterator.index
       /\ error.message[1] = "String not closed"
             => error.linePosition = Len(iterator.chars)
       /\ error.message[1] = "Invalid double quote in value"
             => /\ At(iterator.chars, error.linePosition) = CODEPOINT_DOUBLEQUOTE
                /\ error.linePosition > startIndex
                /\ \A k \in startIndex..(error.linePosition - 1) :
                       At(iterator.chars, k) # CODEPOINT_DOUBLEQUOTE
       /\ (content = Unterminated /\ ~roundTrip)
             => /\ error.message[1] = "String not closed"
                /\ error.lineIndex = 0
                /\ error.linePosition = unterminatedAt
       /\ (content = QuoteInValue /\ ~roundTrip)
             => /\ error.message[1] = "Invalid double quote in value"
                /\ error.lineIndex = 0
                /\ error.linePosition = 1
       /\ (content = AstralThenQuote /\ ~roundTrip)
             => /\ error.message[1] = "Invalid double quote in value"
                /\ error.linePosition = 1

C5_AsStated == C5_ErrorPositions(14)

\* C5 as amended: the same, with '"unterminated' failing at position 13,
\* the number of codepoints of the line.
C5_Amended == C5_ErrorPositions(13)

C5_Witness ==
    /\ op = "parseLine" /\ content = Unterminated /\ pc = "error"
    /\ error.message = <<"String not closed", 1, 14>>
    /\ error.linePosition = 13

-----------------------------------------------------------------------------
\* C6: null marker.  A parsed value is null exactly when it was read by the
\* unquoted scanner and its text is the single character "-"; every other
\* unquoted token is its literal text; a quoted value is always a string.
C6_Step ==
    values' # values =>
        \/ pc = "for" /\ values' = <<>>       \* the next line starts
        \/ /\ Len(values') = Len(values) + 1
           /\ SubSeq(values', 1, Len(values)) = values
           /\ LET v == values'[Len(values')]
                  token == fromCodePoint(SubSeq(iterator.chars, startIndex + 1,
                                                iterator'.index))
              IN \/ /\ pc = "pv"
                    /\ v.null <=> (token = <<CODEUNIT_DASH>>)
                    /\ ~v.null => v.str = token
                    /\ v # Str(<<CODEUNIT_DASH>>)
                 \/ /\ pc = "dq"
                    /\ ~v.null
                    /\ v.str = value

C6_State ==
    (ParseOp /\ ~roundTrip /\ pc = "done" /\ op = "parseLine") =>
       /\ content = <<CODEUNIT_DASH>> => returned = <<Null>>
       /\ content = <<CODEPOINT_DOUBLEQUOTE, CODEUNIT_DASH, CODEPOINT_DOUBLEQUOTE>>
             => returned = <<Str(<<CODEUNIT_DASH>>)>>
       /\ content = <<CODEPOINT_DOUBLEQUOTE, CODEPOINT_DOUBLEQUOTE>>
             => returned = <<Str(<<>>)>>
       /\ content = <<CODEUNIT_DASH, CODEUNIT_DASH>>
             => returned = <<Str(<<CODEUNIT_DASH, CODEUNIT_DASH>>)>>

C6_NullMarker == []C6_State /\ [][C6_Step]_vars

C6_Witness ==
    /\ pc = "skip"
    /\ values = <<Null, Str(<<CODEUNIT_DASH>>)>>

-----------------------------------------------------------------------------
\* C7: comment.  A # met outside a quoted value ends the line successfully:
\* the line's values are exactly those read before it and nothing at or
\* after it adds a value or raises an error; a # inside a quoted value is
\* part of the value.
C7_Step ==
    /\ (pc \in {"skip", "do", "head"} /\ is(iterator, CODEPOINT_HASH)) =>
          \/ pc' = "head" /\ iterator' = iterator /\ values' = values
                /\ result' = result /\ error' = NoError
          \/ pc = "head" /\ pc' = "for" /\ result' = Append(result, values)
                /\ i' = i + 1 /\ error' = NoError
    /\ (pc \in {"pv", "dq"} /\ pc' = "skip" /\ is(iterator', CODEPOINT_HASH)) =>
          error' = NoError
    /\ (pc = "dq" /\ is(next(iterator), CODEPOINT_HASH)) =>
          /\ value' = value \o <<CODEPOINT_HASH>>
          /\ pc' = "dq" /\ values' = values /\ error' = NoError

C7_State ==
    (~roundTrip /\ pc = "done" /\ op = "parseLine") =>
       /\ content = CommentAfterValues => returned = <<Str(<<97>>), Str(<<98>>)>>
       /\ content = CommentAfterString => returned = <<Str(<<97>>), Str(<<98>>)>>
       /\ content = <<CODEPOINT_DOUBLEQUOTE, CODEPOINT_HASH, CODEPOINT_DOUBLEQUOTE>>
             => returned = <<Str(<<CODEPOINT_HASH>>)>>
       /\ content = <<97, CODEPOINT_HASH, CODEPOINT_DOUBLEQUOTE>>
             => returned = <<Str(<<97>>)>>

C7_Comment == []C7_State /\ [][C7_Step]_vars

C7_Witness ==
    /\ op = "parseLine" /\ content = CommentAfterString /\ pc = "done"
    /\ iterator.index = 6
    /\ returned = <<Str(<<97>>), Str(<<98>>)>>

-----------------------------------------------------------------------------
\* C8: serializeValue.  null gives -; a string is quoted exactly when the
\* quoting rule holds (which is what needsDoubleQuotes answers), the quoted
\* form being a quote, the codepoints with line-feed as "/" and quote as "",
\* and a quote; any other string is returned unchanged.
C8_SerializeValue ==
    (op = "serializeValue" /\ pc = "done") =>
       /\ error = NoError
       /\ needsDoubleQuotes(arg) <=> (~arg.null /\ QuotingRule(arg.str))
       /\ returned =
             IF arg.null THEN <<CODEUNIT_DASH>>
             ELSE IF QuotingRule(arg.str)
                  THEN <<CODEPOINT_DOUBLEQUOTE>>
                           \o QuotedBody(getCodePoints(arg.str))
                           \o <<CODEPOINT_DOUBLEQUOTE>>
                  ELSE arg.str

C8_Witness ==
    /\ op = "serializeValue" /\ pc = "done"
    /\ arg = Str(<<CODEPOINT_LINEFEED, CODEPOINT_DOUBLEQUOTE>>)
    /\ returned = <<34, 34, 47, 34, 34, 34, 34>>

-----------------------------------------------------------------------------
\* C9: quoted-value scanning.  One round of the scanner, the cursor being
\* at position x: no codepoint at x+1 -> StringNotClosed; a codepoint that
\* is no quote -> appended; a quote followed by: the end -> complete; a
\* quote -> one quote appended; / and a quote -> one line-feed appended;
\* / and no quote -> InvalidStringLineBreak; whitespace or # -> complete,
\* cursor on that terminator; anything else -> InvalidCharacterAfterString
\* at that codepoint.
C9_Step ==
    pc = "dq" =>
       LET chars == iterator.chars
           n == Len(chars)
           x == iterator.index
           c1 == At(chars, x + 1)
           c2 == At(chars, x + 2)
           c3 == At(chars, x + 3)
           Complete(k) ==
               /\ values' = Append(values, Str(value))
               /\ iterator'.index = k
               /\ pc' = "skip" /\ error' = NoError
           Continue(k, s) ==
               /\ value' = value \o s
               /\ values' = values
               /\ iterator'.index = k
               /\ pc' = "dq" /\ error' = NoError
           Fails(k, message) ==
               /\ pc' = "error"
               /\ error'.message[1] = message
               /\ error'.linePosition = k
               /\ values' = values
       IN IF x + 1 >= n THEN Fails(n, "String not closed")
          ELSE IF c1 # CODEPOINT_DOUBLEQUOTE THEN Continue(x + 1, fromCodePoint(<<c1>>))
          ELSE IF x + 2 >= n THEN Complete(n)
          ELSE IF c2 = CODEPOINT_DOUBLEQUOTE
               THEN Continue(x + 2, <<CODEPOINT_DOUBLEQUOTE>>)
          ELSE IF c2 = CODEPOINT_SLASH /\ c3 = CODEPOINT_DOUBLEQUOTE
               THEN Continue(x + 3, <<CODEPOINT_LINEFEED>>)
          ELSE IF c2 = CODEPOINT_SLASH
               THEN Fails(x + 3, "Invalid string line break")
          ELSE IF isWhitespace(c2) \/ c2 = CODEPOINT_HASH
               THEN Complete(x + 2) /\ get(iterator') = c2
          ELSE Fails(x + 2, "Invalid character after string")

C9_QuotedScanning == [][C9_Step]_vars

C9_Witness ==
    /\ pc = "dq"
    /\ value = <<CODEPOINT_DOUBLEQUOTE, CODEPOINT_LINEFEED>>

-----------------------------------------------------------------------------
\* C10: parsing a line terminates and is bounded by the line's length: the
\* cursor stays within 0..(number of codepoints) and never moves back, every
\* round of a scanner moves it forward, and only codepoints of the line are
\* appended to a value.  Termination: while a line is being parsed a step
\* is always possible, and every step lowers a measure that is linear in
\* the codepoints left and never negative.
Rank == IF pc \in {"skip", "do"} THEN 2 ELSE IF pc = "head" THEN 1 ELSE 0
Measure == 3 * (Len(iterator.chars) - iterator.index) + Rank

C10_State ==
    /\ InLine => ENABLED Next
    /\ iterator.index >= 0
    /\ iterator.index <= Len(iterator.chars)
    /\ pc \in {"do", "pv", "dq"} => ~isEnd(iterator)
    /\ \A k \in 1..Len(value) : value[k] # Undefined
    /\ \A k \in 1..Len(values) :
           \A j \in 1..Len(values[k].str) : values[k].str[j] # Undefined

C10_Step ==
    /\ (InLine /\ pc' # "for") =>
          /\ iterator'.chars = iterator.chars
          /\ iterator'.index >= iterator.index
          /\ Measure' < Measure
          /\ Measure' >= 0
    /\ (pc \in {"pv", "dq"}) => iterator'.index > iterator.index
    /\ (pc = "pv" /\ pc' = "skip") => iterator'.index > startIndex
    /\ (pc = "dq" /\ value' # value) => ~isEnd(iterator')

C10_Termination == []C10_State /\ [][C10_Step]_vars

C10_Witness ==
    /\ content = CommentAfterString /\ pc = "for"
    /\ Len(result) = 1 /\ Len(result[1]) = 2
    /\ iterator.index = 6

=============================================================================
